---- MODULE Spec2Model ----
(***************************************************************************)
(* State-machine model of static/js/main.js: the two DOMContentLoaded      *)
(* scripts (the buyer page script, lines 1-198, and the company dashboard  *)
(* script, lines 202-405).  Each event handler and each continuation of an *)
(* asynchronous call (the code after an await, or a .then/.catch callback) *)
(* is one action.  The variable page says which of the two scripts runs.   *)
(***************************************************************************)
EXTENDS Integers, Sequences, FiniteSets, TLC

\* ------------------------------------------------------------------ bounds
\* longest card name and longest query, in characters
MaxLen == 2
\* how many partner-list requests may be outstanding in the model
MaxPartnerReqs == 2
\* how many assignment requests may be outstanding in the model
MaxAssignReqs == 1
\* how many price-suggestion requests may be outstanding in the model
MaxPriceReqs == 2
\* longest card name on a page whose voice search is exercised
MaxNameLen == 1

\* ------------------------------------------------------------------ values
Pages == {"buyer", "company"}
Chars == {"a", "A", "b"}
Cards == {"card1", "card2"}
OrderIds == {"41", "42"}
PartnerIds == {"p1", "p2"}
CropNames == {"", "rice"}
None == "none-value"
\* how a fetch settles: it rejects, or resolves with an OK or a non-OK status
Outcomes == {"reject", "ok", "notok"}

\* JavaScript values a JSON body carries: undefined (an absent field), a
\* number, a string
Undefined == [t |-> "undefined"]
Num(n) == [t |-> "num", n |-> n]
Str(s) == [t |-> "str", s |-> s]
Prices == {0, 5}

\* every string of at most n characters, as a sequence of characters
Strings(n) == UNION {[1..k -> Chars] : k \in 0..n}

VARIABLES
    page,              \* which script runs: "buyer" or "company"
    searchText,        \* searchBar.value / searchInput.value
    cardName,          \* card -> its match key (h4 text / data-crop-name)
    cardDisplay,       \* card -> style.display
    speechSupported,   \* window.SpeechRecognition || webkitSpeechRecognition
    voiceBtnDisplay,   \* voiceSearchBtn.style.display
    listening,         \* the class "listening" / "is-listening" is set
    capture,           \* the state of the recognition object
    cropNameField,     \* value of the crop-name input
    priceField,        \* value of the price input
    btnText,           \* suggestPriceBtn.textContent
    btnDisabled,       \* suggestPriceBtn.disabled
    priceReqs,         \* outstanding price requests, each at a stage
    modalDisplay,      \* modal.style.display
    currentOrderId,    \* modal.dataset.currentOrderId / currentOrderId
    partnerList,       \* content of the partner list element
    buttons,           \* select button element -> its state
    partnerFetching,   \* outstanding partner-list requests
    assignReqs,        \* outstanding assignment requests
    session,           \* the order id the latest open was activated with
    reloaded,          \* window.location.reload() was called
    last               \* what the most recent handler run did

voiceVars == <<speechSupported, voiceBtnDisplay, listening, capture>>
searchVars == <<searchText, cardName, cardDisplay, voiceVars>>
priceVars == <<cropNameField, priceField, btnText, btnDisabled, priceReqs>>
modalVars == <<modalDisplay, currentOrderId, partnerList, buttons,
               partnerFetching, assignReqs, session, reloaded>>
vars == <<page, searchVars, priceVars, modalVars, last>>

\* ----------------------------------------------------------- effects log
\* A handler's calls to alert, fetch and location.reload, and its hiding of
\* the modal, in the order the handler makes them.
Alert(msg) == [type |-> "alert", prefix |-> "", msg |-> msg]
AlertPrefixed(prefix, msg) == [type |-> "alert", prefix |-> prefix, msg |-> msg]
Fetch(url, body) == [type |-> "fetch", url |-> url, body |-> body]
Hide == [type |-> "hide"]
Reload == [type |-> "reload"]
NoArg == [none |-> TRUE]
RanWith(op, arg, effects) == [op |-> op, arg |-> arg, effects |-> effects]
Ran(op, effects) == RanWith(op, NoArg, effects)
EffectsIn(run, type) ==
    {i \in 1..Len(run.effects) : run.effects[i].type = type}
Effects(type) == EffectsIn(last, type)

\* ------------------------------------------------------------ strings
\* String.prototype.toLowerCase on one character and on a string
LowerChar(c) == IF c = "A" THEN "a" ELSE IF c = "B" THEN "b" ELSE c
toLowerCase(s) == [i \in 1..Len(s) |-> LowerChar(s[i])]
\* String.prototype.includes: needle occurs in hay as a contiguous run
includes(hay, needle) ==
    \E i \in 0..(Len(hay) - Len(needle)) :
        SubSeq(hay, i + 1, i + Len(needle)) = needle

\* ------------------------------------------------------------ search filter
\* filterCrops without its else branch: a card that does not match keeps
\* the display it had
filterCropsDisplayNoElse(card, old) ==
    LET filter == toLowerCase(searchText')
        cropName == toLowerCase(cardName[card])
    IN IF includes(cropName, filter) THEN "" ELSE old

\* buyer: filterCrops, the display it gives one card
filterCropsDisplay(card, old) ==
    LET filter == toLowerCase(searchText')
        cropName == toLowerCase(cardName[card])
    IN IF includes(cropName, filter) THEN "" ELSE "none"

\* the keyup handler without its else branch
keyupDisplayNoElse(card, old) ==
    LET searchTerm == toLowerCase(searchText')
        cropName == cardName[card]
    IN IF includes(cropName, searchTerm) THEN "block" ELSE old

\* company: the keyup handler, the display it gives one card
keyupDisplay(card, old) ==
    LET searchTerm == toLowerCase(searchText')
        cropName == cardName[card]
    IN IF includes(cropName, searchTerm) THEN "block" ELSE "none"

\* the filter run over every card
filterCrops ==
    cardDisplay' = [card \in Cards |->
        IF page = "buyer" THEN filterCropsDisplay(card, cardDisplay[card])
                          ELSE keyupDisplay(card, cardDisplay[card])]

\* A key release in the search field: the field holds the edited text q by
\* the time the keyup listener runs.
KeyUp(q) ==
    /\ searchText' = q
    /\ filterCrops
    /\ last' = Ran("keyup", <<>>)
    /\ UNCHANGED <<page, cardName, voiceVars, priceVars, modalVars>>

Visible(card) == cardDisplay[card] # "none"

\* ------------------------------------------------------------ voice search
\* The recognition object is idle, or started: "active" while it captures,
\* "stopping" after stop(), "resulted" after it delivered its one result
\* (continuous = false), "errored" after its error event.  A started object
\* stays started until its end event.
CaptureStates == {"idle", "active", "stopping", "resulted", "errored"}
SpeechStart == [type |-> "start"]
SpeechStop == [type |-> "stop"]
VoiceErrorAlert == "Voice recognition failed. Please try again."

\* a click listener that is attached whether or not the API exists
HandlerAlwaysAttached == TRUE
\* the click listener is attached in the branch "if (SpeechRecognition)"
HandlerAttached == speechSupported

\* recognition.start(): accepted by an idle object; on a started object it
\* throws InvalidStateError and changes nothing
StartThrows == capture # "idle"
recognitionStart == capture' = IF StartThrows THEN capture ELSE "active"
\* recognition.stop(): an active capture finishes with what it has heard
recognitionStop == capture' = IF capture = "active" THEN "stopping" ELSE capture

\* buyer: the click listener of voiceSearchBtn
BuyerVoiceClick ==
    IF listening
    THEN /\ recognitionStop
         /\ listening' = FALSE
         /\ last' = RanWith("voiceClick", [threw |-> FALSE], <<SpeechStop>>)
    ELSE /\ recognitionStart
         /\ listening' = ~StartThrows
         /\ last' = RanWith("voiceClick", [threw |-> StartThrows],
                             <<SpeechStart>>)

\* company: the click listener of voiceSearchBtn
CompanyVoiceClick ==
    /\ listening' = TRUE
    /\ recognitionStart
    /\ last' = RanWith("voiceClick", [threw |-> StartThrows], <<SpeechStart>>)

VoiceClick ==
    /\ HandlerAttached
    /\ IF page = "buyer" THEN BuyerVoiceClick ELSE CompanyVoiceClick
    /\ UNCHANGED <<page, searchText, cardName, cardDisplay, speechSupported,
                   voiceBtnDisplay, priceVars, modalVars>>

\* recognition.onresult: the transcript goes into the search field and the
\* filter runs (buyer: filterCrops(); company: a dispatched keyup event)
onresult(transcript) ==
    /\ searchText' = transcript
    /\ filterCrops
    /\ last' = RanWith("voiceResult", [transcript |-> transcript], <<>>)

\* the result event of a capture
VoiceResult(transcript) ==
    /\ capture \in {"active", "stopping"}
    /\ capture' = "resulted"
    /\ onresult(transcript)
    /\ UNCHANGED <<page, cardName, speechSupported, voiceBtnDisplay, listening,
                   priceVars, modalVars>>

\* an end handler that leaves the indicator as it is
onendKeepsIndicator == listening' = listening
\* recognition.onend
onend == listening' = FALSE

\* recognition.onerror
onerror ==
    /\ listening' = FALSE
    /\ last' = Ran("voiceError",
                   IF page = "buyer" THEN <<>> ELSE <<Alert(VoiceErrorAlert)>>)

\* the error event of a capture; its end event follows
VoiceError ==
    /\ capture \in {"active", "stopping"}
    /\ capture' = "errored"
    /\ onerror
    /\ UNCHANGED <<page, searchText, cardName, cardDisplay, speechSupported,
                   voiceBtnDisplay, priceVars, modalVars>>

\* the end event of a capture
VoiceEnd ==
    /\ capture # "idle"
    /\ capture' = "idle"
    /\ onend
    /\ last' = Ran("voiceEnd", <<>>)
    /\ UNCHANGED <<page, searchText, cardName, cardDisplay, speechSupported,
                   voiceBtnDisplay, priceVars, modalVars>>

\* the voice block at load: the button is hidden when the API is missing
InitVoiceVars ==
    /\ voiceBtnDisplay = IF speechSupported THEN "" ELSE "none"
    /\ listening = FALSE
    /\ capture = "idle"

InitSearchVars ==
    /\ searchText = <<>>
    /\ cardDisplay = [card \in Cards |-> ""]
    /\ InitVoiceVars

InitPriceVars ==
    /\ cropNameField = ""
    /\ priceField = Str("")
    /\ btnText = "Suggest Price"
    /\ btnDisabled = FALSE
    /\ priceReqs = <<>>

InitModalVars ==
    /\ modalDisplay = "none"
    /\ currentOrderId = None
    /\ partnerList = [msg |-> None, items |-> <<>>]
    /\ buttons = <<>>
    /\ partnerFetching = 0
    /\ assignReqs = {}
    /\ session = None
    /\ reloaded = FALSE

\* The search feature: the page is rendered with any card names.
InitSearch ==
    /\ page \in Pages
    /\ speechSupported = TRUE
    /\ cardName \in [Cards -> Strings(MaxLen)]
    /\ InitSearchVars /\ InitPriceVars /\ InitModalVars
    /\ last = Ran("load", <<>>)

NextSearch == \E q \in Strings(MaxLen) : KeyUp(q)

SpecSearch == InitSearch /\ [][NextSearch]_vars

\* Voice search: the page is rendered with cards of no name, in a browser
\* with or without the speech API.
InitVoice ==
    /\ page \in Pages
    /\ speechSupported \in BOOLEAN
    /\ cardName = [card \in Cards |-> <<>>]
    /\ InitSearchVars /\ InitPriceVars /\ InitModalVars
    /\ last = Ran("load", <<>>)

NextVoice ==
    \/ \E q \in Strings(MaxLen) : KeyUp(q)
    \/ VoiceClick
    \/ \E transcript \in Strings(MaxLen) : VoiceResult(transcript)
    \/ VoiceError
    \/ VoiceEnd

SpecVoice == InitVoice /\ [][NextVoice]_vars
\* every started capture eventually ends
FairSpecVoice == SpecVoice /\ WF_vars(VoiceEnd)

\* Voice search over cards of any short name.
InitVoiceSearch ==
    /\ page \in Pages
    /\ speechSupported \in BOOLEAN
    /\ cardName \in [Cards -> Strings(MaxNameLen)]
    /\ InitSearchVars /\ InitPriceVars /\ InitModalVars
    /\ last = Ran("load", <<>>)

SpecVoiceSearch == InitVoiceSearch /\ [][NextVoice]_vars

\* ------------------------------------------------------------ JS coercions
\* ToBoolean: undefined, 0 and "" are falsy
Truthy(v) ==
    CASE v.t = "undefined" -> FALSE
      [] v.t = "num" -> v.n # 0
      [] v.t = "str" -> v.s # ""
\* toText of a value (numbers of one decimal digit)
DigitText == <<"0", "1", "2", "3", "4", "5", "6", "7", "8", "9">>
toText(v) ==
    CASE v.t = "undefined" -> "undefined"
      [] v.t = "num" -> DigitText[v.n + 1]
      [] v.t = "str" -> v.s
\* a || b
OrElse(a, b) == IF Truthy(a) THEN a ELSE b

\* ------------------------------------------------------------ price suggestion
\* What response.json() gives: a rejection (the body is not JSON), null, or
\* an object with the fields the handlers read.
Unparsable == [json |-> "unparsable"]
NullBody == [json |-> "null"]
PriceBodies ==
    {Unparsable, NullBody} \cup
    {[json |-> "object", error |-> e, predicted_price |-> p] :
        e \in {Undefined, Str("Crop not found")},
        p \in {Undefined} \cup {Num(n) : n \in Prices}}

BusyLabel == IF page = "buyer" THEN "..." ELSE "Loading..."
EmptyCropAlert ==
    IF page = "buyer" THEN "Please enter a Crop Name first."
                      ELSE "Please enter a crop name first."
PriceCatchAlert ==
    IF page = "buyer" THEN "An error occurred. Please try again."
                      ELSE "Could not fetch price suggestion."
PriceUrl(cropName) == [path |-> "/api/predict-price", crop |-> cropName]

RemoveAt(seq, i) == SubSeq(seq, 1, i - 1) \o SubSeq(seq, i + 1, Len(seq))

\* the user edits the crop-name field
EditCropName(name) ==
    /\ cropNameField' = name
    /\ last' = Ran("editCropName", <<>>)
    /\ UNCHANGED <<page, searchVars, priceField, btnText, btnDisabled,
                   priceReqs, modalVars>>

\* the restoration of the trigger control
RestoreBtn ==
    /\ btnText' = "Suggest Price"
    /\ btnDisabled' = FALSE

\* the click handler without its validation
CropNameNeverMissing(cropName) == FALSE

\* the guard of the click handler: an empty crop name is refused
CropNameMissing(cropName) == cropName = ""

\* a start that issues the fetch and leaves the control enabled
StartPriceRequestNoDisable(cropName) ==
    /\ btnText' = BusyLabel
    /\ btnDisabled' = FALSE
    /\ priceReqs' = Append(priceReqs, [stage |-> "fetch", ok |-> FALSE])
    /\ last' = RanWith("suggestClick", [cropName |-> cropName],
                        <<Fetch(PriceUrl(cropName), None)>>)

\* the start of a request: busy label, control disabled, fetch issued
StartPriceRequest(cropName) ==
    /\ btnText' = BusyLabel
    /\ btnDisabled' = TRUE
    /\ priceReqs' = Append(priceReqs, [stage |-> "fetch", ok |-> FALSE])
    /\ last' = RanWith("suggestClick", [cropName |-> cropName],
                        <<Fetch(PriceUrl(cropName), None)>>)

\* click on suggestPriceBtn; a disabled button dispatches no click
SuggestClick ==
    /\ ~btnDisabled
    /\ Len(priceReqs) < MaxPriceReqs
    /\ LET cropName == cropNameField
       IN IF CropNameMissing(cropName)
          THEN /\ last' = RanWith("suggestClick", [cropName |-> cropName],
                                  <<Alert(EmptyCropAlert)>>)
               /\ UNCHANGED <<btnText, btnDisabled, priceReqs>>
          ELSE StartPriceRequest(cropName)
    /\ UNCHANGED <<page, searchVars, cropNameField, priceField, modalVars>>

\* a catch path that alerts and leaves the trigger control as it is
PriceCatchNoRestore(op, arg) ==
    /\ last' = RanWith(op, arg, <<Alert(PriceCatchAlert)>>)
    /\ UNCHANGED <<priceField, btnText, btnDisabled>>

\* the catch path of either script: log, alert, restore
PriceCatch(op, arg) ==
    /\ last' = RanWith(op, arg, <<Alert(PriceCatchAlert)>>)
    /\ RestoreBtn
    /\ UNCHANGED priceField

\* fetch() settles: it rejects (network error) or resolves with a status
PriceFetchSettles(i, outcome) ==
    /\ i \in 1..Len(priceReqs)
    /\ priceReqs[i].stage = "fetch"
    /\ IF outcome = "reject"
       THEN /\ PriceCatch("priceFetchSettled", [ok |-> FALSE, data |-> None])
            /\ priceReqs' = RemoveAt(priceReqs, i)
       ELSE /\ priceReqs' = [priceReqs EXCEPT
                   ![i] = [stage |-> "json", ok |-> (outcome = "ok")]]
            /\ last' = Ran("priceHeaders", <<>>)
            /\ UNCHANGED <<priceField, btnText, btnDisabled>>
    /\ UNCHANGED <<page, searchVars, cropNameField, modalVars>>

\* buyer: the code after "await response.json()", with catch and finally
BuyerPriceBody(ok, data) ==
    IF data.json # "object"
    THEN PriceCatch("priceBodySettled", [ok |-> ok, data |-> data])
    ELSE /\ IF ok
            THEN /\ priceField' = Str(toText(data.predicted_price))
                 /\ last' = RanWith("priceBodySettled", [ok |-> ok, data |-> data], <<>>)
            ELSE /\ last' = RanWith("priceBodySettled", [ok |-> ok, data |-> data],
                        <<Alert(toText(OrElse(data.error,
                                    Str("Could not fetch price."))))>>)
                 /\ UNCHANGED priceField
         /\ RestoreBtn

\* company: the second .then callback, and .catch
CompanyPriceBody(ok, data) ==
    IF data.json # "object"
    THEN PriceCatch("priceBodySettled", [ok |-> ok, data |-> data])
    ELSE /\ IF Truthy(data.error)
            THEN /\ last' = RanWith("priceBodySettled", [ok |-> ok, data |-> data],
                                <<Alert(toText(data.error))>>)
                 /\ UNCHANGED priceField
            ELSE IF Truthy(data.predicted_price)
            THEN /\ priceField' = Str(toText(data.predicted_price))
                 /\ last' = RanWith("priceBodySettled", [ok |-> ok, data |-> data], <<>>)
            ELSE /\ last' = RanWith("priceBodySettled", [ok |-> ok, data |-> data], <<>>)
                 /\ UNCHANGED priceField
         /\ RestoreBtn

\* response.json() settles
PriceBodySettles(i, data) ==
    /\ i \in 1..Len(priceReqs)
    /\ priceReqs[i].stage = "json"
    /\ IF page = "buyer" THEN BuyerPriceBody(priceReqs[i].ok, data)
                         ELSE CompanyPriceBody(priceReqs[i].ok, data)
    /\ priceReqs' = RemoveAt(priceReqs, i)
    /\ UNCHANGED <<page, searchVars, cropNameField, modalVars>>

InitPrice ==
    /\ page \in Pages
    /\ speechSupported = TRUE
    /\ cardName = [card \in Cards |-> <<>>]
    /\ InitSearchVars /\ InitPriceVars /\ InitModalVars
    /\ last = Ran("load", <<>>)

PriceSettles ==
    \E i \in 1..MaxPriceReqs :
        \/ \E outcome \in Outcomes : PriceFetchSettles(i, outcome)
        \/ \E data \in PriceBodies : PriceBodySettles(i, data)

NextPrice ==
    \/ \E name \in CropNames : EditCropName(name)
    \/ SuggestClick
    \/ PriceSettles

SpecPrice == InitPrice /\ [][NextPrice]_vars
\* every fetch eventually settles
FairSpecPrice == SpecPrice /\ WF_vars(PriceSettles)

\* ------------------------------------------------------------ logistics modal
LoadingMsg == "Loading partners..."
NoPartnersMsg == "No logistics partners found."
PartnersErrorMsg ==
    IF page = "buyer" THEN "Error loading partners. Please try again."
                      ELSE "Could not load partners. Please try again."
AssignBusyLabel == IF page = "buyer" THEN "..." ELSE "Assigning..."
AssignCatchAlert == "An error occurred. Please try again."
PartnersUrl == [method |-> "GET", path |-> "/api/logistics-partners"]
AssignUrl(orderId) ==
    [method |-> "POST", path |-> "/order/{id}/assign-logistics", id |-> orderId]

\* the arrays a partner-list body may be: the ids of distinct partners, in
\* any order
PartnerArrays ==
    {L \in UNION {[1..k -> PartnerIds] : k \in 0..Cardinality(PartnerIds)} :
        \A i, j \in 1..Len(L) : L[i] = L[j] => i = j}
PartnerBodies ==
    {Unparsable, [json |-> "object"]} \cup
    {[json |-> "array", partners |-> L] : L \in PartnerArrays}
AssignBodies ==
    {Unparsable, NullBody} \cup
    {[json |-> "object", success |-> TRUE, error |-> Undefined,
      message |-> Str("Partner assigned")]} \cup
    {[json |-> "object", success |-> FALSE, error |-> e, message |-> Undefined] :
        e \in {Undefined, Str("Order not found")}}

\* the select buttons still reachable: those in the list and those the
\* handler of an outstanding request holds as its event target
Live(items, reqs) ==
    {items[i] : i \in 1..Len(items)} \cup {r.el : r \in reqs}
Keep(btns, items, reqs) ==
    [el \in (DOMAIN btns) \cap Live(items, reqs) |-> btns[el]]

\* document.createElement: k new elements, told apart from every element
\* still reachable
FreshElements(k, used) ==
    LET free == (1..(Cardinality(used) + k)) \ used
    IN [i \in 1..k |->
          CHOOSE el \in free : Cardinality({e \in free : e < el}) = i - 1]

\* partnerList.innerHTML = "<li>message</li>": the former children are gone
ShowMessage(msg) ==
    /\ partnerList' = [msg |-> msg, items |-> <<>>]
    /\ buttons' = Keep(buttons, <<>>, assignReqs)

\* a rendering that appends to the list without clearing it first
ItemsNotCleared == partnerList.items

\* what the list holds when the rendering of a response starts
\* (partnerList.innerHTML = "")
ClearedItems == <<>>

\* the rendering of a partner array: one entry per partner, in order
RenderPartners(L) ==
    IF Len(L) = 0
    THEN ShowMessage(NoPartnersMsg)
    ELSE LET kept == Keep(buttons, ClearedItems, assignReqs)
             fresh == FreshElements(Len(L), DOMAIN kept)
             items == ClearedItems \o fresh
         IN /\ partnerList' = [msg |-> None, items |-> items]
            /\ buttons' =
                 [el \in Live(items, assignReqs) |->
                    IF el \in DOMAIN kept THEN kept[el]
                    ELSE LET i == CHOOSE i \in 1..Len(L) : fresh[i] = el
                         IN [partnerId |-> L[i],
                             text |-> "Select", disabled |-> FALSE]]

\* an open transition that leaves the stored order id as it was
StoredOrderStale(orderId) == currentOrderId

\* what the open transition stores as the current order id
StoredOrder(orderId) == orderId

\* buyer: the arrange-transport click handler up to its await;
\* company: openModal up to the fetch call
openModal(orderId) ==
    /\ ~reloaded
    /\ partnerFetching < MaxPartnerReqs
    /\ session' = orderId
    /\ currentOrderId' = StoredOrder(orderId)
    /\ ShowMessage(LoadingMsg)
    /\ modalDisplay' = "block"
    /\ partnerFetching' = partnerFetching + 1
    /\ last' = RanWith("open", [orderId |-> orderId], <<Fetch(PartnersUrl, None)>>)
    /\ UNCHANGED <<page, searchVars, priceVars, assignReqs, reloaded>>

\* The partner-list request settles.  Between the await of fetch and the
\* await of response.json() the handler reads and writes nothing, so the two
\* continuations are one step: the fetch rejects, or it resolves with a
\* status and response.json() gives data.
PartnerSettles(outcome, data) ==
    /\ ~reloaded
    /\ partnerFetching > 0
    /\ partnerFetching' = partnerFetching - 1
    /\ IF outcome = "reject" \/ (page = "buyer" /\ outcome = "notok")
       THEN ShowMessage(PartnersErrorMsg)
       ELSE IF data.json = "array"
       THEN RenderPartners(data.partners)
       ELSE ShowMessage(PartnersErrorMsg)
    /\ last' = RanWith("partnersSettled", [outcome |-> outcome, data |-> data], <<>>)
    /\ UNCHANGED <<page, searchVars, priceVars, modalDisplay, currentOrderId,
                   assignReqs, session, reloaded>>

\* buyer: the two close handlers' body; company: closeModal
closeModal ==
    /\ modalDisplay' = "none"
    /\ currentOrderId' = IF page = "buyer" THEN currentOrderId ELSE None

\* click on the close control (shown only while the modal is)
CloseClick ==
    /\ ~reloaded
    /\ modalDisplay = "block"
    /\ closeModal
    /\ last' = Ran("closeClick", <<Hide>>)
    /\ UNCHANGED <<page, searchVars, priceVars, partnerList, buttons,
                   partnerFetching, assignReqs, session,
                   reloaded>>

\* window.onclick with the modal itself as the target: a click on the scrim
ScrimClick ==
    /\ ~reloaded
    /\ modalDisplay = "block"
    /\ closeModal
    /\ last' = Ran("scrimClick", <<Hide>>)
    /\ UNCHANGED <<page, searchVars, priceVars, partnerList, buttons,
                   partnerFetching, assignReqs, session,
                   reloaded>>

\* a select handler that finds no stored order id
SelectOrderIdNull == None

\* the order id the selection handler puts in the request's path
SelectOrderId == currentOrderId

\* click on a select button of the list (an enabled one, in a shown modal)
SelectClick(el) ==
    /\ ~reloaded
    /\ modalDisplay = "block"
    /\ el \in {partnerList.items[i] : i \in 1..Len(partnerList.items)}
    /\ ~buttons[el].disabled
    /\ Cardinality(assignReqs) < MaxAssignReqs
    /\ LET partnerId == buttons[el].partnerId
           orderId == SelectOrderId
       IN /\ buttons' = [buttons EXCEPT
                 ![el] = [@ EXCEPT !.text = AssignBusyLabel, !.disabled = TRUE]]
          /\ assignReqs' = assignReqs \cup
                 {[el |-> el, orderId |-> orderId, partnerId |-> partnerId]}
          /\ last' = RanWith("select", [el |-> el],
                 <<Fetch(AssignUrl(orderId), [partner_id |-> partnerId])>>)
    /\ UNCHANGED <<page, searchVars, priceVars, modalDisplay, currentOrderId,
                   partnerList, partnerFetching,
                   session, reloaded>>

\* e.target.textContent = 'Select'; e.target.disabled = false
Restored(el) ==
    [buttons EXCEPT ![el] = [@ EXCEPT !.text = "Select", !.disabled = FALSE]]

\* the restoration of the handler's target; with the handler's end a target
\* that is no longer in the list is unreachable
RestoreTarget(r) ==
    buttons' = Keep(Restored(r.el), partnerList.items, assignReqs \ {r})

\* a failure path that tells the user nothing
AssignFailureSilent(msg) == <<>>

\* what a failure path tells the user
AssignFailureEffects(msg) == <<msg>>

\* a failure path of the selection handler: tell the user, restore the button
AssignFailed(r, arg, msg) ==
    /\ last' = RanWith("assignSettled", arg, AssignFailureEffects(msg))
    /\ RestoreTarget(r)
    /\ UNCHANGED <<modalDisplay, currentOrderId, reloaded>>

\* the success path: hide the modal (company: closeModal), reload the page
AssignSucceeded(r, arg, data) ==
    /\ closeModal
    /\ reloaded' = TRUE
    /\ last' = RanWith("assignSettled", arg,
          IF page = "buyer" THEN <<Hide, Reload>>
          ELSE <<Alert(toText(data.message)), Hide, Reload>>)
    /\ UNCHANGED buttons

\* whether the script takes a parsed body for a success
TakenAsSuccess(ok, data) ==
    IF page = "buyer" THEN ok /\ data.success ELSE data.success

\* The assignment request settles (the two continuations as one step, as
\* for the partner list): the fetch rejects, or it resolves with a status
\* and response.json() gives data.
AssignSettles(r, outcome, data) ==
    /\ ~reloaded
    /\ r \in assignReqs
    /\ LET ok == (outcome = "ok")
           arg == [req |-> r, outcome |-> outcome, data |-> data]
       IN IF outcome = "reject" \/ data.json # "object"
          THEN AssignFailed(r, arg, Alert(AssignCatchAlert))
          ELSE IF TakenAsSuccess(ok, data)
          THEN AssignSucceeded(r, arg, data)
          ELSE AssignFailed(r, arg,
                 IF page = "buyer"
                 THEN Alert(toText(OrElse(data.error,
                                          Str("Could not assign partner."))))
                 ELSE AlertPrefixed("Error: ", toText(data.error)))
    /\ assignReqs' = assignReqs \ {r}
    /\ UNCHANGED <<page, searchVars, priceVars, partnerList,
                   partnerFetching, session>>

\* a rejected fetch has no body
Settlements(bodies) ==
    {<<"reject", Unparsable>>} \cup ({"ok", "notok"} \X bodies)

InitModal ==
    /\ page \in Pages
    /\ speechSupported = TRUE
    /\ cardName = [card \in Cards |-> <<>>]
    /\ InitSearchVars /\ InitPriceVars /\ InitModalVars
    /\ last = Ran("load", <<>>)

NextModal ==
    \/ \E orderId \in OrderIds : openModal(orderId)
    \/ \E st \in Settlements(PartnerBodies) : PartnerSettles(st[1], st[2])
    \/ CloseClick
    \/ ScrimClick
    \/ \E el \in DOMAIN buttons : SelectClick(el)
    \/ \E r \in assignReqs, st \in Settlements(AssignBodies) :
          AssignSettles(r, st[1], st[2])

SpecModal == InitModal /\ [][NextModal]_vars

\* ==================================================================== claims

\* ---- C1 (SpecModal)
\* C1: closing the modal by the close control or by a click on the scrim
\* hides it and clears the stored order id; in every state where the modal is
\* closed the stored order id is empty.
C1_ClosedModalHasNoOrder ==
    /\ last.op \in {"closeClick", "scrimClick"} =>
           modalDisplay = "none" /\ currentOrderId = None
    /\ modalDisplay = "none" => currentOrderId = None

\* ---- C2 (SpecModal)
\* a step that processes the response to an assignment request
AssignStep ==
    \E r \in assignReqs, st \in Settlements(AssignBodies) :
        AssignSettles(r, st[1], st[2])

C3_TriggerAlwaysRestored ==
    /\ [][Len(priceReqs') < Len(priceReqs) =>
             ~btnDisabled' /\ btnText' = "Suggest Price"]_vars
    /\ [][Len(priceReqs') > Len(priceReqs) =>
             btnDisabled' /\ btnText' = BusyLabel]_vars
    /\ btnDisabled ~> (~btnDisabled /\ btnText = "Suggest Price")

\* the body was null, so that reading a field of it threw while the response
\* was handled, and the control is restored
C3_Witness ==
    /\ last.op = "priceBodySettled"
    /\ last.arg.data = NullBody
    /\ ~btnDisabled
    /\ btnText = "Suggest Price"

\* ---- C4 (SpecPrice)
\* C4: activating the trigger while the crop-name field is empty alerts the
\* validation error, starts no fetch and leaves the trigger's label and
\* enabled state and the price field as they are.
C4_EmptyCropNameSendsNothing ==
    [][(SuggestClick /\ cropNameField = "") =>
          /\ last'.effects = <<Alert(EmptyCropAlert)>>
          /\ UNCHANGED <<btnText, btnDisabled, priceField, priceReqs>>]_vars

\* the trigger was activated with an empty crop name: an alert, no fetch
C4_Witness ==
    /\ last.op = "suggestClick"
    /\ last.arg.cropName = ""
    /\ Effects("alert") # {}
    /\ Effects("fetch") = {}
    /\ priceReqs = <<>>

\* ---- C5 (SpecSearch)
\* a card's name contains the query, case-insensitively
Matches(card, q) == includes(toLowerCase(cardName[card]), toLowerCase(q))

\* C5: after the filter has run, the visible cards are exactly those whose
\* lowercased name contains the lowercased query, in both scripts.
C5_FilterShowsExactlyMatches ==
    last.op = "keyup" =>
        \A card \in Cards : Visible(card) <=> Matches(card, searchText)

\* ---- C6 (SpecSearch)
\* C6: after the filter has run with the empty query every card is visible,
\* and after it has run with a query no card name contains every card is
\* hidden, whatever was visible before.
C6_EmptyShowsAllNoMatchShowsNone ==
    last.op = "keyup" =>
        /\ searchText = <<>> => \A card \in Cards : Visible(card)
        /\ (\A card \in Cards : ~Matches(card, searchText)) =>
               \A card \in Cards : ~Visible(card)

\* a query that matches no card has run and hidden every card
C6_Witness ==
    /\ last.op = "keyup"
    /\ searchText # <<>>
    /\ \A card \in Cards : ~Matches(card, searchText) /\ ~Visible(card)

\* ---- C7 (SpecModal)
\* C7: activating a partner's select control while the modal is open for
\* order o disables the control, gives it the busy label and issues exactly
\* one POST to /order/o/assign-logistics with body {partner_id: p}, o being
\* the id the open transition of the session stored and p the control's tag.
C7_SelectPostsStoredOrder ==
    last.op = "select" =>
        LET el == last.arg.el
        IN /\ session \in OrderIds
           /\ modalDisplay = "block"
           /\ el \in DOMAIN buttons
           /\ buttons[el].disabled
           /\ buttons[el].text = AssignBusyLabel
           /\ last.effects =
                <<Fetch(AssignUrl(session),
                        [partner_id |-> buttons[el].partnerId])>>
           /\ {r \in assignReqs : r.el = el} =
                {[el |-> el, orderId |-> session,
                  partnerId |-> buttons[el].partnerId]}

\* partner p1 was selected in a modal opened for order 42
C7_Witness ==
    /\ last.op = "select"
    /\ session = "42"
    /\ last.effects = <<Fetch(AssignUrl("42"), [partner_id |-> "p1"])>>

\* ---- C8 (SpecModal)
\* the response is a failure: the fetch rejected, the status is not OK, the
\* body is no object, or it says success: false
FailureResponse(arg) ==
    \/ arg.outcome # "ok"
    \/ arg.data.json # "object"
    \/ ~arg.data.success

\* C8: whenever an assignment request fails, the error is shown, the
\* selected control is enabled and labelled 'Select' again, and the response
\* neither closes the modal nor reloads the page.
C8_FailureKeepsModalOpen ==
    (last.op = "assignSettled" /\ FailureResponse(last.arg)) =>
        /\ Effects("alert") # {}
        /\ Effects("hide") = {}
        /\ Effects("reload") = {}
        /\ ~reloaded
        /\ LET el == last.arg.req.el
           IN el \in DOMAIN buttons =>
                 buttons[el].text = "Select" /\ ~buttons[el].disabled

\* ---- C9 (SpecModal)
\* the handler hid the modal before it called reload
HideThenReload ==
    \E i \in Effects("hide") : \E j \in Effects("reload") : i < j

\* C9: a success response closes the modal and then reloads the page, and
\* only a success response to an assignment request reloads the page.
C9_ReloadOnlyAfterSuccess ==
    /\ (last.op = "assignSettled" /\ ~FailureResponse(last.arg)) =>
           HideThenReload /\ modalDisplay = "none" /\ reloaded
    /\ (reloaded \/ Effects("reload") # {}) =>
           /\ last.op = "assignSettled"
           /\ ~FailureResponse(last.arg)
           /\ HideThenReload

\* ---- C10 (SpecModal)
\* the list holds exactly one enabled 'Select' entry per element of L, in
\* order, each tagged with that partner's id, or the empty-state message
RenderedExactly(L) ==
    IF Len(L) = 0
    THEN partnerList = [msg |-> NoPartnersMsg, items |-> <<>>]
    ELSE /\ partnerList.msg = None
         /\ Len(partnerList.items) = Len(L)
         /\ \A i, j \in 1..Len(L) :
               partnerList.items[i] = partnerList.items[j] => i = j
         /\ \A i \in 1..Len(L) :
               LET el == partnerList.items[i]
               IN /\ el \in DOMAIN buttons
                  /\ buttons[el] = [partnerId |-> L[i], text |-> "Select",
                                    disabled |-> FALSE]

\* C10: opening the modal for order o stores o, shows the modal and the
\* loading placeholder; after a partner-list response with list L has been
\* processed the list holds exactly one selectable entry per element of L
\* (no duplicates, no leftovers, also when opens overlap), and the explicit
\* 'No logistics partners found.' message when L is empty.
C10_ListRendersExactlyResponse ==
    /\ last.op = "open" =>
          /\ currentOrderId = last.arg.orderId
          /\ modalDisplay = "block"
          /\ partnerList = [msg |-> LoadingMsg, items |-> <<>>]
    /\ (/\ last.op = "partnersSettled"
        /\ last.arg.outcome = "ok"
        /\ last.arg.data.json = "array") =>
          RenderedExactly(last.arg.data.partners)

\* a two-partner list was rendered while another partner-list request, of
\* an overlapping open, is outstanding
C10_Witness ==
    /\ last.op = "partnersSettled"
    /\ last.arg.outcome = "ok"
    /\ last.arg.data.json = "array"
    /\ Len(last.arg.data.partners) = 2
    /\ Len(partnerList.items) = 2
    /\ partnerFetching > 0

\* a price request that failed: the fetch rejected (network error), or it
\* resolved with a non-OK status
PriceFailed ==
    \/ last.op = "priceFetchSettled"
    \/ last.op = "priceBodySettled" /\ ~last.arg.ok

\* C11: every failed price request (non-OK status with or without an error
\* field, or a network error) ends with the user notified: an alert is shown,
\* carrying the server's error message when the body has one and a generic
\* fallback message otherwise; no failed request completes silently.
C11_FailedPriceRequestNotifies ==
    PriceFailed =>
        \E i \in Effects("alert") :
            LET msg == last.effects[i].msg
            IN /\ msg # ""
               /\ (/\ last.op = "priceBodySettled"
                   /\ last.arg.data.json = "object"
                   /\ Truthy(last.arg.data.error))
                     => msg = toText(last.arg.data.error)

\* C12: when a price request succeeds with a body carrying a numeric
\* predicted_price p, the price field afterwards holds p, for every p
\* including 0.
C12_NumericPriceWritten ==
    (/\ last.op = "priceBodySettled"
     /\ last.arg.ok
     /\ last.arg.data.json = "object"
     /\ last.arg.data.error = Undefined
     /\ last.arg.data.predicted_price.t = "num")
        => priceField = Str(toText(last.arg.data.predicted_price))

\* C13: at most one price request is in flight; the trigger control is
\* disabled exactly while a request is outstanding (from the moment it is
\* issued until it settles), and a disabled control starts no handler run.
C13_OnePriceRequestInFlight ==
    /\ [](/\ Len(priceReqs) <= 1
          /\ (btnDisabled <=> Len(priceReqs) = 1))
    /\ [][btnDisabled => last'.op # "suggestClick"]_vars
\* a request is in flight, its headers have arrived, the control is disabled
C13_Witness ==
    /\ Len(priceReqs) = 1
    /\ priceReqs[1].stage = "json"
    /\ btnDisabled

\* C14: when speech capture yields a transcript t, the search field is set
\* to t and the filter is run on t: immediately afterwards the visible cards
\* are exactly those whose name contains t, case-insensitively.
C14_TranscriptFiltersCards ==
    last.op = "voiceResult" =>
        /\ searchText = last.arg.transcript
        /\ \A card \in Cards :
               Visible(card) <=> Matches(card, last.arg.transcript)

\* C15: the listening indicator is never set while no capture is in progress
\* (the recognition object is idle); the end event and the error event of a
\* capture reset it; and, every started capture eventually ending, an
\* indicator that is set is eventually cleared.
C15_IndicatorResetWhenCaptureEnds ==
    /\ [](listening => capture # "idle")
    /\ [][last'.op \in {"voiceEnd", "voiceError"} => ~listening']_vars
    /\ (listening ~> ~listening)
\* company: a capture started by a click has errored, the indicator the
\* click had set is cleared
C15_Witness ==
    /\ page = "company"
    /\ last.op = "voiceError"
    /\ capture = "errored"
    /\ ~listening

\* C16: when the speech API is missing at load, the voice control is hidden,
\* it has no click listener, and whatever the user does no capture is
\* started and the indicator is never set.
C16_UnsupportedVoiceIsInert ==
    ~speechSupported =>
        /\ voiceBtnDisplay = "none"
        /\ ~ENABLED VoiceClick
        /\ capture = "idle"
        /\ ~listening
        /\ last.op \notin {"voiceClick", "voiceResult", "voiceError", "voiceEnd"}
\* without the speech API, the user has typed a query
C16_Witness ==
    /\ ~speechSupported
    /\ last.op = "keyup"
    /\ searchText # <<>>

\* what the page's filter shows for a card name and a search text
Shown(name, text) ==
    includes(IF page = "buyer" THEN toLowerCase(name) ELSE name,
             toLowerCase(text))

\* C17: after any sequence of key releases and voice results, whether a card
\* is visible depends only on the current search text and the card's name
\* (two cards of one name are shown or hidden together, and what is shown is
\* what the filter gives for the current text, whatever ran before); at
\* load, with the empty text, every card is visible.
C17_VisibilityDependsOnTextAndName ==
    /\ \A card \in Cards : Visible(card) <=> Shown(cardName[card], searchText)
    /\ \A c1, c2 \in Cards :
           cardName[c1] = cardName[c2] => (Visible(c1) <=> Visible(c2))
    /\ last.op = "load" => \A card \in Cards : Visible(card)
\* a voice result has hidden one card and left the other visible
C17_Witness ==
    /\ last.op = "voiceResult"
    /\ \E c1, c2 \in Cards : Visible(c1) /\ ~Visible(c2)

\* a capture that has started and has neither ended nor errored
CaptureInProgress == capture \in {"active", "stopping", "resulted"}

\* C20: recognition.start() is never requested while a started capture is
\* still in progress; and in the buyer script a click while the indicator is
\* set requests stop() and nothing else, clears the indicator and leaves no
\* capture active.
C20_NoStartWhileCapturing ==
    [][last'.op = "voiceClick" =>
          /\ EffectsIn(last', "start") # {} => ~CaptureInProgress
          /\ (page = "buyer" /\ listening) =>
                 /\ last'.effects = <<SpeechStop>>
                 /\ ~listening'
                 /\ capture' # "active"]_vars

\* C18: a success response to an assignment request issued for order A, that
\* is processed while the modal is open for a different order B, leaves the
\* session for B open with stored order id B, and reloads nothing.
C18_SuccessForOtherOrderKeepsSession ==
    [][(/\ last'.op = "assignSettled"
        /\ last'.arg.outcome = "ok"
        /\ last'.arg.data.json = "object"
        /\ last'.arg.data.success
        /\ modalDisplay = "block"
        /\ session \in OrderIds
        /\ session # last'.arg.req.orderId)
          => /\ modalDisplay' = "block"
             /\ currentOrderId' = session
             /\ ~reloaded']_vars

\* C19: no assignment request carries a cleared or stale order id: while the
\* modal is open (the only time a partner control can be activated) the
\* stored id is the id of the order the modal was opened for, every
\* outstanding request carries an order id, and a select posts to the URL
\* of the order the modal is open for at that moment.
C19_NoNullOrStaleOrderId ==
    /\ modalDisplay = "block" =>
           currentOrderId \in OrderIds /\ currentOrderId = session
    /\ \A r \in assignReqs : r.orderId \in OrderIds
    /\ last.op = "select" =>
           \E i \in Effects("fetch") :
               /\ last.effects[i].url.method = "POST"
               /\ last.effects[i].url.id = session
               /\ last.effects[i].url.id # None
\* a partner was selected in a modal open for order 42 while the list
\* request of another open is still outstanding
C19_Witness ==
    /\ last.op = "select"
    /\ session = "42"
    /\ partnerFetching > 0

====
